---- MODULE Spec2Model ----
(***************************************************************************)
(* Model of GitLab::get_mirror_repos (src/provider/gitlab.rs): the         *)
(* paginated fetch of a group's projects and the interpretation of each    *)
(* project's description as a mirror directive.                            *)
(*                                                                         *)
(* Option<T> values are modelled as sequences of length at most one:       *)
(* <<>> is None / Err, <<v>> is Some(v) / Ok(v).                           *)
(***************************************************************************)
EXTENDS Integers, Sequences, FiniteSets, TLC

\* const PER_PAGE: u8 = 100
PER_PAGE == 100

\* Stand-in for u32::MAX, the exclusive end of the page range 1..u32::MAX,
\* scaled down so that the end of the range is reached.
MaxPageCounter == 3

\* Largest number of elements the server puts in one page body.
MaxPageLen == 2

\* Largest number of projects the server serves during one call.
MaxProjects == 3

VARIABLES self, pc, page, projects, idx, mirrors, warned, result,
          requests, inflight, responses

vars == <<self, pc, page, projects, idx, mirrors, warned, result,
          requests, inflight, responses>>

----------------------------------------------------------------------------
(* Configuration: struct GitLab *)

Tokens == {<<>>, <<"secret">>}

GitLab == [url : {"https://gitlab.example"}, group : {"grp"},
           use_http : BOOLEAN, private_token : Tokens]

----------------------------------------------------------------------------
(* The server's side: what a page response can look like *)

Statuses == {200, 204, 401, 500}

\* Raw value of the X-Next-Page response header as a sequence of characters;
\* the header itself is optional.
RawNextValues == {<<>>, <<"x">>, <<"0">>, <<"7">>}
NextHeaders == {<<>>} \cup {<<v>> : v \in RawNextValues}

\* What a project's description text holds once read as a YAML document.
DescKinds == {"origin", "origin_skip", "no_origin", "not_yaml"}

\* JSON elements lacking one of the required fields of Project.
MissingKinds == {"no_description", "no_web_url", "no_ssh_url", "no_http_url"}

ElemKinds == DescKinds \cup MissingKinds

Description(id, kind) ==
    CASE kind = "origin"      -> [yaml |-> TRUE, origin |-> << <<"origin", id>> >>, skip |-> <<>>]
      [] kind = "origin_skip" -> [yaml |-> TRUE, origin |-> << <<"origin", id>> >>, skip |-> <<TRUE>>]
      [] kind = "no_origin"   -> [yaml |-> TRUE, origin |-> <<>>, skip |-> <<FALSE>>]
      [] OTHER                -> [yaml |-> FALSE, origin |-> <<>>, skip |-> <<>>]

\* One element of a page body; id identifies the project on the server.
Elem(id, kind) ==
    [description      |-> IF kind = "no_description" THEN <<>> ELSE <<Description(id, kind)>>,
     web_url          |-> IF kind = "no_web_url" THEN <<>> ELSE << <<"web", id>> >>,
     ssh_url_to_repo  |-> IF kind = "no_ssh_url" THEN <<>> ELSE << <<"ssh", id>> >>,
     http_url_to_repo |-> IF kind = "no_http_url" THEN <<>> ELSE << <<"http", id>> >>]

\* The bodies the server can send for page n when it has served `served`
\* projects so far: not JSON at all, or a JSON array of elements.
Bodies(n, served) ==
    {[json |-> FALSE, elems |-> <<>>]} \cup
    UNION {{[json |-> TRUE, elems |-> [k \in 1..len |-> Elem(<<n, k>>, f[k])]] :
               f \in [1..len -> ElemKinds]} :
           len \in {l \in 0..MaxPageLen : served + l <= MaxProjects}}

Responses(n, served) ==
    [status : Statuses, next : NextHeaders, body : Bodies(n, served)]

\* What the log of responses keeps of a response.
Summary(res) ==
    [kind |-> "http", status |-> res.status, next |-> res.next,
     json |-> res.body.json,
     complete |-> \A k \in 1..Len(res.body.elems) :
                     /\ res.body.elems[k].description # <<>>
                     /\ res.body.elems[k].web_url # <<>>
                     /\ res.body.elems[k].ssh_url_to_repo # <<>>
                     /\ res.body.elems[k].http_url_to_repo # <<>>,
     lacking |-> Cardinality({k \in 1..Len(res.body.elems) :
                     \/ res.body.elems[k].description = <<>>
                     \/ res.body.elems[k].web_url = <<>>
                     \/ res.body.elems[k].ssh_url_to_repo = <<>>
                     \/ res.body.elems[k].http_url_to_repo = <<>>}),
     n |-> Len(res.body.elems)]

NoResponse ==
    [kind |-> "connfail", status |-> 0, next |-> <<>>, json |-> FALSE,
     complete |-> FALSE, lacking |-> 0, n |-> 0]

----------------------------------------------------------------------------
(* Helpers of get_mirror_repos *)

\* Variant: the header set is sent empty.
BuildHeaders_none(private_token) == {}

\* headers.set(PrivateToken(token)) when a token is configured
BuildHeaders(private_token) ==
    IF private_token = <<>> THEN {}
    ELSE {[name |-> "PRIVATE-TOKEN", value |-> private_token[1]]}

\* Variant: the page numbers of the URL start at zero.
Url_zeroBased(cfg, n) ==
    [base |-> cfg.url, path |-> <<"api", "v4", "groups", cfg.group, "projects">>,
     per_page |-> PER_PAGE, page |-> n - 1]

\* format!("{}/api/v4/groups/{}/projects?per_page={}&page={}", ...)
Url(cfg, n) ==
    [base |-> cfg.url, path |-> <<"api", "v4", "groups", cfg.group, "projects">>,
     per_page |-> PER_PAGE, page |-> n]

\* Variant: a loop without an end of range.
RangeHasNext_unbounded(n) == TRUE

\* for page in 1..u32::MAX : the range still yields the value n
RangeHasNext(n) == n < MaxPageCounter

\* Variant: the page counter advances by two.
NextPage_skip(n) == n + 2

\* the range's successor
NextPage(n) == n + 1

NoErr == [kind |-> "none", url |-> <<>>, status |-> <<>>, hint |-> FALSE]

ConnectionErr(url) ==
    [kind |-> "Connection", url |-> <<url>>, status |-> <<>>, hint |-> FALSE]

\* Variant: no branch for 401, which is reported like any other status.
CheckStatus_no401(status, url) ==
    IF status # 200
    THEN <<[kind |-> "UnexpectedStatus", url |-> <<url>>, status |-> <<status>>, hint |-> FALSE]>>
    ELSE <<>>

\* Variant: every 2xx status passes the check.
CheckStatus_success(status, url) ==
    IF status < 200 \/ status > 299
    THEN IF status = 401
         THEN <<[kind |-> "Unauthorized", url |-> <<url>>, status |-> <<status>>, hint |-> TRUE]>>
         ELSE <<[kind |-> "UnexpectedStatus", url |-> <<url>>, status |-> <<status>>, hint |-> FALSE]>>
    ELSE <<>>

\* if res.status != StatusCode::Ok { ... }
CheckStatus(status, url) ==
    IF status # 200
    THEN IF status = 401
         THEN <<[kind |-> "Unauthorized", url |-> <<url>>, status |-> <<status>>, hint |-> TRUE]>>
         ELSE <<[kind |-> "UnexpectedStatus", url |-> <<url>>, status |-> <<status>>, hint |-> FALSE]>>
    ELSE <<>>

MalformedPageErr ==
    [kind |-> "MalformedPage", url |-> <<>>, status |-> <<>>, hint |-> FALSE]

DigitValue(c) ==
    CASE c = "0" -> 0 [] c = "1" -> 1 [] c = "2" -> 2 [] c = "3" -> 3
      [] c = "4" -> 4 [] c = "5" -> 5 [] c = "6" -> 6 [] c = "7" -> 7
      [] c = "8" -> 8 [] c = "9" -> 9 [] OTHER -> -1

\* The decimal digits of u32::MAX = 4294967295
U32MaxDigits == <<4, 2, 9, 4, 9, 6, 7, 2, 9, 5>>

\* The digit sequence a exceeds the digit sequence b of the same length.
RECURSIVE DigitsGreater(_, _)
DigitsGreater(a, b) ==
    IF a = <<>> THEN FALSE
    ELSE IF Head(a) # Head(b) THEN Head(a) > Head(b)
    ELSE DigitsGreater(Tail(a), Tail(b))

\* header! { (XNextPage, "X-Next-Page") => [u32] } : u32::from_str of the raw
\* value; the number is kept as its sequence of decimal digits.
ParseU32(raw) ==
    IF raw = <<>> \/ \E k \in 1..Len(raw) : DigitValue(raw[k]) < 0 THEN <<>>
    ELSE LET digits == [k \in 1..Len(raw) |-> DigitValue(raw[k])] IN
         IF \/ Len(digits) > Len(U32MaxDigits)
            \/ Len(digits) = Len(U32MaxDigits) /\ DigitsGreater(digits, U32MaxDigits)
         THEN <<>>
         ELSE <<digits>>

\* Variant: the header counts as soon as it is present, whatever its value.
GetXNextPage_presence(next) == next

\* res.headers.get::<XNextPage>()
GetXNextPage(next) == IF next = <<>> THEN <<>> ELSE ParseU32(next[1])

\* Variant: the loop never breaks on the header.
HasNext_always(next) == TRUE

\* let has_next = match res.headers.get::<XNextPage>() { None => false, Some(n) => true }
HasNext(next) == GetXNextPage(next) # <<>>

\* Variant: a body that does not decode counts as an empty page.
DecodePage_lenient(body) ==
    IF ~body.json THEN << <<>> >>
    ELSE IF \E k \in 1..Len(body.elems) :
               \/ body.elems[k].description = <<>>
               \/ body.elems[k].web_url = <<>>
               \/ body.elems[k].ssh_url_to_repo = <<>>
               \/ body.elems[k].http_url_to_repo = <<>>
    THEN << <<>> >>
    ELSE <<[k \in 1..Len(body.elems) |->
              [description      |-> body.elems[k].description[1],
               web_url          |-> body.elems[k].web_url[1],
               ssh_url_to_repo  |-> body.elems[k].ssh_url_to_repo[1],
               http_url_to_repo |-> body.elems[k].http_url_to_repo[1]]]>>

\* The element has all the fields of Project.
HasAllFields(e) ==
    /\ e.description # <<>>
    /\ e.web_url # <<>>
    /\ e.ssh_url_to_repo # <<>>
    /\ e.http_url_to_repo # <<>>

\* Variant: elements that lack a field are left out and the rest is kept.
DecodePage_perElement(body) ==
    IF ~body.json THEN <<>>
    ELSE LET kept == SelectSeq(body.elems, HasAllFields) IN
         <<[k \in 1..Len(kept) |->
              [description      |-> kept[k].description[1],
               web_url          |-> kept[k].web_url[1],
               ssh_url_to_repo  |-> kept[k].ssh_url_to_repo[1],
               http_url_to_repo |-> kept[k].http_url_to_repo[1]]]>>

\* serde_json::from_reader(res) into Vec<Project>
DecodePage(body) ==
    IF ~body.json THEN <<>>
    ELSE IF \E k \in 1..Len(body.elems) :
               \/ body.elems[k].description = <<>>
               \/ body.elems[k].web_url = <<>>
               \/ body.elems[k].ssh_url_to_repo = <<>>
               \/ body.elems[k].http_url_to_repo = <<>>
    THEN <<>>
    ELSE <<[k \in 1..Len(body.elems) |->
              [description      |-> body.elems[k].description[1],
               web_url          |-> body.elems[k].web_url[1],
               ssh_url_to_repo  |-> body.elems[k].ssh_url_to_repo[1],
               http_url_to_repo |-> body.elems[k].http_url_to_repo[1]]]>>

\* Variant: origin has a default too, so a document without origin decodes.
DecodeDesc_defaultOrigin(d) ==
    IF ~d.yaml THEN <<>>
    ELSE <<[origin |-> IF d.origin = <<>> THEN <<"origin", <<0, 0>> >> ELSE d.origin[1],
            skip   |-> IF d.skip = <<>> THEN FALSE ELSE d.skip[1]]>>

\* Variant: a missing skip key counts as skip true.
DecodeDesc_skipDefault(d) ==
    IF ~d.yaml \/ d.origin = <<>> THEN <<>>
    ELSE <<[origin |-> d.origin[1],
            skip   |-> IF d.skip = <<>> THEN TRUE ELSE d.skip[1]]>>

\* serde_yaml::from_str::<Desc>(&p.description)
DecodeDesc(d) ==
    IF ~d.yaml \/ d.origin = <<>> THEN <<>>
    ELSE <<[origin |-> d.origin[1],
            skip   |-> IF d.skip = <<>> THEN FALSE ELSE d.skip[1]]>>

\* Variant: the two URLs are exchanged.
Destination_swapped(p, use_http) ==
    IF use_http THEN p.ssh_url_to_repo ELSE p.http_url_to_repo

\* let destination = if use_http { p.http_url_to_repo } else { p.ssh_url_to_repo }
Destination(p, use_http) ==
    IF use_http THEN p.http_url_to_repo ELSE p.ssh_url_to_repo

\* Variant: the skip flag is not looked at.
Interpret_noskip(p, use_http) ==
    LET d == DecodeDesc(p.description) IN
    IF d = <<>> THEN [mirror |-> <<>>, warn |-> <<[web_url |-> p.web_url, why |-> "invalid"]>>]
    ELSE [mirror |-> <<[origin |-> d[1].origin, destination |-> Destination(p, use_http)]>>,
          warn |-> <<>>]

\* The body of the loop over the projects: what one project contributes.
Interpret(p, use_http) ==
    LET d == DecodeDesc(p.description) IN
    IF d = <<>> THEN [mirror |-> <<>>, warn |-> <<[web_url |-> p.web_url, why |-> "invalid"]>>]
    ELSE IF d[1].skip THEN [mirror |-> <<>>, warn |-> <<[web_url |-> p.web_url, why |-> "skip"]>>]
    ELSE [mirror |-> <<[origin |-> d[1].origin, destination |-> Destination(p, use_http)]>>,
          warn |-> <<>>]

Pending == [state |-> "pending", mirrors |-> <<>>, err |-> NoErr]
Ok(ms) == [state |-> "Ok", mirrors |-> ms, err |-> NoErr]
Err(e) == [state |-> "Err", mirrors |-> <<>>, err |-> e]

----------------------------------------------------------------------------
(* The call *)

Init ==
    /\ self \in GitLab
    /\ pc = "loop"
    /\ page = 1
    /\ projects = <<>>
    /\ idx = 1
    /\ mirrors = <<>>
    /\ warned = <<>>
    /\ result = Pending
    /\ requests = <<>>
    /\ inflight = {}
    /\ responses = <<>>

\* client.get(&url).headers(headers.clone()).send()
SendRequest ==
    /\ pc = "loop"
    /\ RangeHasNext(page)
    /\ LET req == [url |-> Url(self, page), headers |-> BuildHeaders(self.private_token)] IN
         /\ requests' = Append(requests, req)
         /\ inflight' = inflight \cup {req}
    /\ pc' = "wait"
    /\ UNCHANGED <<self, page, projects, idx, mirrors, warned, result, responses>>

\* the range 1..u32::MAX is exhausted: the for loop ends
RangeExhausted ==
    /\ pc = "loop"
    /\ ~RangeHasNext(page)
    /\ pc' = "mirrors"
    /\ UNCHANGED <<self, page, projects, idx, mirrors, warned, result, requests,
                   inflight, responses>>

\* Variant: a failed send() is tried again.
ConnectionFailure_retry ==
    /\ pc = "wait"
    /\ inflight' = {}
    /\ responses' = Append(responses, NoResponse)
    /\ pc' = "loop"
    /\ UNCHANGED <<self, page, projects, idx, mirrors, warned, result, requests>>

\* send() fails: .or_else(|e| Err(format!("Unable to connect to: {} ({})", url, e)))?
ConnectionFailure ==
    /\ pc = "wait"
    /\ inflight' = {}
    /\ responses' = Append(responses, NoResponse)
    /\ result' = Err(ConnectionErr(Url(self, page)))
    /\ pc' = "done"
    /\ UNCHANGED <<self, page, projects, idx, mirrors, warned, requests>>

\* send() yields a response: the rest of the loop body
HandleResponse(res) ==
    LET url == Url(self, page)
        e == CheckStatus(res.status, url)
        has_next == HasNext(res.next)
        projects_page == DecodePage(res.body)
    IN
    /\ inflight' = {}
    /\ responses' = Append(responses, Summary(res))
    /\ IF e # <<>>
       THEN /\ result' = Err(e[1])
            /\ pc' = "done"
            /\ UNCHANGED <<page, projects>>
       ELSE IF projects_page = <<>>
       THEN /\ result' = Err(MalformedPageErr)
            /\ pc' = "done"
            /\ UNCHANGED <<page, projects>>
       ELSE /\ projects' = projects \o projects_page[1]
            /\ IF ~has_next
               THEN pc' = "mirrors" /\ UNCHANGED page
               ELSE pc' = "loop" /\ page' = NextPage(page)
            /\ UNCHANGED result
    /\ UNCHANGED <<self, idx, mirrors, warned, requests>>

Respond ==
    /\ pc = "wait"
    /\ \E res \in Responses(page, Len(projects)) : HandleResponse(res)

\* Variant: a new mirror is put in front of the list.
InterpretProject_prepend ==
    /\ pc = "mirrors"
    /\ idx <= Len(projects)
    /\ LET out == Interpret(projects[idx], self.use_http) IN
         /\ mirrors' = out.mirror \o mirrors
         /\ warned' = warned \o out.warn
    /\ idx' = idx + 1
    /\ UNCHANGED <<self, pc, page, projects, result, requests, inflight, responses>>

\* for p in projects { match serde_yaml::from_str::<Desc>(&p.description) ... }
InterpretProject ==
    /\ pc = "mirrors"
    /\ idx <= Len(projects)
    /\ LET out == Interpret(projects[idx], self.use_http) IN
         /\ mirrors' = mirrors \o out.mirror
         /\ warned' = warned \o out.warn
    /\ idx' = idx + 1
    /\ UNCHANGED <<self, pc, page, projects, result, requests, inflight, responses>>

\* return Ok(mirrors)
ReturnOk ==
    /\ pc = "mirrors"
    /\ idx > Len(projects)
    /\ result' = Ok(mirrors)
    /\ pc' = "done"
    /\ UNCHANGED <<self, page, projects, idx, mirrors, warned, requests, inflight,
                   responses>>

Next ==
    \/ SendRequest
    \/ RangeExhausted
    \/ ConnectionFailure
    \/ Respond
    \/ InterpretProject
    \/ ReturnOk

Spec == Init /\ [][Next]_vars

\* The call is synchronous and blocking: it always takes its next step, and
\* the transport answers every request with a response or a failure.
FairSpec == Spec /\ WF_vars(Next)

----------------------------------------------------------------------------
(* Vocabulary of the properties, stated on what the server sent *)

\* The raw header value is a decimal number greater than zero.
PositiveDecimal(raw) ==
    /\ raw # <<>>
    /\ \A k \in 1..Len(raw) : DigitValue(raw[k]) >= 0
    /\ \E k \in 1..Len(raw) : DigitValue(raw[k]) > 0

\* The response carries a next-page header announcing a page.
CarriesNextPage(r) == r.next # <<>> /\ PositiveDecimal(r.next[1])

\* A status 200 response whose body decodes.
ValidPage(r) == r.kind = "http" /\ r.status = 200 /\ r.json /\ r.complete

\* The page request ended in a connection failure, a non-200 status or an
\* undecodable body.
Fatal(r) == ~ValidPage(r)

RECURSIVE SumN(_, _)
\* Number of elements in the bodies of the first k responses.
SumN(rs, k) == IF k = 0 THEN 0 ELSE SumN(rs, k - 1) + rs[k].n

\* The description cannot be decoded or lacks origin.
MalformedDescription(d) == ~d.yaml \/ d.origin = <<>>

\* The description decodes with skip true.
SkipDescription(d) == d.yaml /\ d.origin # <<>> /\ d.skip = <<TRUE>>

\* The description decodes with skip false (given or by default).
PlainDescription(d) == d.yaml /\ d.origin # <<>> /\ d.skip # <<TRUE>>

\* The mirror m was made of the project p.
MirrorOf(m, p) == m.destination \in {p.ssh_url_to_repo, p.http_url_to_repo}

LastResponse == responses[Len(responses)]

----------------------------------------------------------------------------
(* Properties *)

\* C1: if a page request ends in a connection failure, a non-200 status or
\* an undecodable body, that request is the last one, the call returns an
\* error and no mirror is built or delivered, whatever was fetched before.
C1_AllOrNothing ==
    \A i \in 1..Len(responses) :
        Fatal(responses[i]) =>
            /\ i = Len(responses)
            /\ pc = "done"
            /\ result.state = "Err"
            /\ result.mirrors = <<>>
            /\ mirrors = <<>>

\* A second page fails after a first page that held a usable project.
C1_Witness ==
    /\ pc = "done"
    /\ Len(responses) = 2
    /\ Fatal(responses[2])
    /\ \E j \in 1..Len(projects) : PlainDescription(projects[j].description)

\* C2: after a 200 response without the X-Next-Page header no further page
\* request is issued, whatever the number of elements of its body.
C2_NoHeaderStops ==
    \A i \in 1..Len(responses) :
        (responses[i].kind = "http" /\ responses[i].status = 200
            /\ responses[i].next = <<>>) =>
            /\ Len(requests) = i
            /\ Len(responses) = i
            /\ inflight = {}
            /\ pc \in {"mirrors", "done"}

\* The call has returned after a first page that was as large as a page gets
\* and had no header.
C2_Witness ==
    /\ pc = "done"
    /\ Len(requests) = 1
    /\ ValidPage(responses[1])
    /\ responses[1].next = <<>>
    /\ responses[1].n = MaxPageLen

\* C3, as stated: after a valid response to request i that carries the
\* next-page header, the next request is issued and is for the following
\* page number, for every page number.
C3_Original ==
    \A i \in 1..Len(responses) :
        (ValidPage(responses[i]) /\ CarriesNextPage(responses[i])) =>
            \/ /\ pc = "loop"
               /\ Len(requests) = i
               /\ page = requests[i].url.page + 1
            \/ /\ Len(requests) > i
               /\ requests[i + 1].url.page = requests[i].url.page + 1

\* C3, amended: the same for every page number below the last value of the
\* page range; the request follows at once and is for the page number plus one.
C3_NextPageRequested ==
    \A i \in 1..Len(responses) :
        (/\ ValidPage(responses[i])
         /\ CarriesNextPage(responses[i])
         /\ requests[i].url.page < MaxPageCounter - 1) =>
            \/ /\ pc = "loop"
               /\ Len(requests) = i
               /\ page = requests[i].url.page + 1
               /\ ENABLED SendRequest
               /\ ~ENABLED RangeExhausted
            \/ /\ Len(requests) > i
               /\ requests[i + 1].url.page = requests[i].url.page + 1

\* Page 2 was requested after a first page whose header announced page 7.
C3_Witness ==
    /\ Len(requests) >= 2
    /\ ValidPage(responses[1])
    /\ responses[1].next = << <<"7">> >>
    /\ requests[1].url.page = 1
    /\ requests[2].url.page = 2

\* C4: a 401 response ends the call at once with an Unauthorized error that
\* names the page URL and carries the access-token hint; no request follows
\* and nothing is delivered, whatever its header and body and whatever was
\* fetched before.
C4_UnauthorizedHalts ==
    \A i \in 1..Len(responses) :
        (responses[i].kind = "http" /\ responses[i].status = 401) =>
            /\ i = Len(responses)
            /\ Len(requests) = i
            /\ inflight = {}
            /\ pc = "done"
            /\ result.state = "Err"
            /\ result.err.kind = "Unauthorized"
            /\ result.err.hint
            /\ result.err.url = <<requests[i].url>>
            /\ result.mirrors = <<>>

\* The second page answers 401 with a next-page header and a decodable,
\* non-empty body, after a first page that held projects.
C4_Witness ==
    /\ Len(responses) = 2
    /\ responses[1].n > 0
    /\ responses[2].status = 401
    /\ CarriesNextPage(responses[2])
    /\ responses[2].json /\ responses[2].complete /\ responses[2].n > 0

\* C5: a response whose status is neither 200 nor 401 ends the call at once
\* with an UnexpectedStatus error carrying the status and the page URL; no
\* request follows and its body contributes no project.
C5_UnexpectedStatusHalts ==
    \A i \in 1..Len(responses) :
        (responses[i].kind = "http" /\ responses[i].status \notin {200, 401}) =>
            /\ i = Len(responses)
            /\ Len(requests) = i
            /\ inflight = {}
            /\ pc = "done"
            /\ result.state = "Err"
            /\ result.err.kind = "UnexpectedStatus"
            /\ result.err.status = <<responses[i].status>>
            /\ result.err.url = <<requests[i].url>>
            /\ Len(projects) = SumN(responses, i - 1)

\* The second page answers 204 with a next-page header and a decodable,
\* non-empty body.
C5_Witness ==
    /\ Len(responses) = 2
    /\ responses[1].n > 0
    /\ responses[2].status = 204
    /\ CarriesNextPage(responses[2])
    /\ responses[2].json /\ responses[2].complete /\ responses[2].n > 0

\* Every page is valid and every page but the last carries the next-page
\* header.
AllPagesValid ==
    /\ Len(responses) >= 1
    /\ \A i \in 1..Len(responses) :
          /\ ValidPage(responses[i])
          /\ i < Len(responses) => CarriesNextPage(responses[i])
    /\ LastResponse.next = <<>>

\* The projects among ps whose description is malformed or has skip true.
Dropped(ps) ==
    {j \in 1..Len(ps) : \/ MalformedDescription(ps[j].description)
                        \/ SkipDescription(ps[j].description)}

\* C6: when the call has returned after P valid pages holding N projects in
\* total, it has returned success with N minus the number of projects with a
\* malformed or skip-true description many mirrors.
C6_MirrorCount ==
    (pc = "done" /\ AllPagesValid) =>
        /\ result.state = "Ok"
        /\ Len(projects) = SumN(responses, Len(responses))
        /\ Len(result.mirrors) =
              SumN(responses, Len(responses)) - Cardinality(Dropped(projects))

\* Two valid pages with three projects, of which some are dropped and some
\* yield a mirror.
C6_Witness ==
    /\ pc = "done"
    /\ AllPagesValid
    /\ Len(responses) = 2
    /\ SumN(responses, 2) = 3
    /\ Dropped(projects) # {}
    /\ Len(result.mirrors) >= 1

\* C7: a project with a malformed description yields no mirror and never
\* makes the call fail; every project whose description decodes with skip
\* false yields its mirror; the call fails only with one of the four fatal
\* kinds, and only when the last page request failed.
C7_DescriptionErrorsContained ==
    /\ pc = "mirrors" => result.state = "pending"
    /\ pc = "done" =>
          /\ result.state \in {"Ok", "Err"}
          /\ result.state = "Err" =>
                /\ result.err.kind \in {"Connection", "Unauthorized",
                                        "UnexpectedStatus", "MalformedPage"}
                /\ Len(responses) >= 1 /\ Fatal(LastResponse)
          /\ result.state = "Ok" =>
                \A j \in 1..Len(projects) :
                    /\ MalformedDescription(projects[j].description) =>
                          \A i \in 1..Len(result.mirrors) :
                              ~MirrorOf(result.mirrors[i], projects[j])
                    /\ PlainDescription(projects[j].description) =>
                          \E i \in 1..Len(result.mirrors) :
                              /\ MirrorOf(result.mirrors[i], projects[j])
                              /\ result.mirrors[i].origin =
                                    projects[j].description.origin[1]

\* Success with a malformed description between two usable ones.
C7_Witness ==
    /\ pc = "done"
    /\ result.state = "Ok"
    /\ Len(result.mirrors) = 2
    /\ \E j \in 2..(Len(projects) - 1) :
          /\ PlainDescription(projects[j - 1].description)
          /\ MalformedDescription(projects[j].description)
          /\ PlainDescription(projects[j + 1].description)

\* C8: a project whose description decodes with skip true yields no mirror,
\* is not an error, and the projects after it are still processed; a project
\* whose description has an origin and no skip key yields a mirror.
C8_SkipFlag ==
    /\ (pc = "mirrors" /\ idx > 1 /\ SkipDescription(projects[idx - 1].description)) =>
          /\ result.state = "pending"
          /\ \A i \in 1..Len(mirrors) : ~MirrorOf(mirrors[i], projects[idx - 1])
          /\ idx <= Len(projects) => ENABLED InterpretProject
    /\ (pc = "done" /\ result.state = "Ok") =>
          \A j \in 1..Len(projects) :
              /\ SkipDescription(projects[j].description) =>
                    \A i \in 1..Len(result.mirrors) :
                        ~MirrorOf(result.mirrors[i], projects[j])
              /\ (/\ projects[j].description.yaml
                  /\ projects[j].description.origin # <<>>
                  /\ projects[j].description.skip = <<>>) =>
                    \E i \in 1..Len(result.mirrors) :
                        MirrorOf(result.mirrors[i], projects[j])

\* Success where a skip-true project is followed by a project with an origin
\* and no skip key.
C8_Witness ==
    /\ pc = "done"
    /\ result.state = "Ok"
    /\ Len(result.mirrors) >= 1
    /\ \E j \in 1..(Len(projects) - 1) :
          /\ SkipDescription(projects[j].description)
          /\ projects[j + 1].description.yaml
          /\ projects[j + 1].description.origin # <<>>
          /\ projects[j + 1].description.skip = <<>>

\* C9: every mirror built comes from exactly one fetched project, whose
\* description decoded with skip false; its origin is that description's
\* origin and its destination is the project's http URL when use_http is set
\* and its ssh URL otherwise.
C9_MirrorFields ==
    LET ms == IF pc = "done" THEN result.mirrors ELSE mirrors IN
    \A i \in 1..Len(ms) :
        /\ Cardinality({j \in 1..Len(projects) : MirrorOf(ms[i], projects[j])}) = 1
        /\ \E j \in 1..Len(projects) :
              /\ PlainDescription(projects[j].description)
              /\ ms[i].origin = projects[j].description.origin[1]
              /\ ms[i].destination =
                    IF self.use_http THEN projects[j].http_url_to_repo
                    ELSE projects[j].ssh_url_to_repo

\* Success with two mirrors under use_http.
C9_Witness ==
    /\ pc = "done"
    /\ result.state = "Ok"
    /\ self.use_http
    /\ Len(result.mirrors) >= 2

\* C10: every call returns, and never issues more requests than the largest
\* value of the page counter.
C10_Terminates ==
    /\ <>(pc = "done")
    /\ [](Len(requests) <= MaxPageCounter)

\* The call has returned although every response was a valid page that
\* announced another page.
C10_Witness ==
    /\ pc = "done"
    /\ Len(responses) = MaxPageCounter - 1
    /\ \A i \in 1..Len(responses) :
          ValidPage(responses[i]) /\ CarriesNextPage(responses[i])

\* The response to the last page number of the range still announced
\* another page.
CapExceeded ==
    /\ Len(responses) = MaxPageCounter - 1
    /\ ValidPage(LastResponse)
    /\ CarriesNextPage(LastResponse)
    /\ requests[Len(requests)].url.page = MaxPageCounter - 1

\* C11: when the response to the last page number the counter allows still
\* announces another page, the call ends in an error and not in a successful
\* mirror list.
C11_CapIsError ==
    (pc = "done" /\ CapExceeded) => result.state = "Err"

\* C12: a valid 200 response to a page below the end of the range is followed
\* by a request for another page exactly when its X-Next-Page header is
\* present, non-empty and a decimal number greater than zero.
C12_HeaderMeaning ==
    \A i \in 1..Len(responses) :
        (/\ ValidPage(responses[i])
         /\ requests[i].url.page < MaxPageCounter - 1
         /\ pc # "loop") =>
            (Len(requests) > i <=> CarriesNextPage(responses[i]))

\* C13: a 200 response whose body does not decode, be it for one element
\* that lacks a required field, ends the call at once with MalformedPage;
\* none of its elements is accepted and no request follows, whatever its
\* next-page header.
C13_MalformedPageTerminal ==
    \A i \in 1..Len(responses) :
        (/\ responses[i].kind = "http"
         /\ responses[i].status = 200
         /\ (~responses[i].json \/ responses[i].lacking > 0)) =>
            /\ i = Len(responses)
            /\ Len(requests) = i
            /\ inflight = {}
            /\ pc = "done"
            /\ result.state = "Err"
            /\ result.err.kind = "MalformedPage"
            /\ result.mirrors = <<>>
            /\ Len(projects) = SumN(responses, i - 1)

\* The second page announces another page and holds two elements of which
\* exactly one lacks a field.
C13_Witness ==
    /\ Len(responses) = 2
    /\ responses[1].n > 0
    /\ responses[2].kind = "http" /\ responses[2].status = 200
    /\ responses[2].json
    /\ responses[2].n = 2 /\ responses[2].lacking = 1
    /\ CarriesNextPage(responses[2])
    /\ result.state = "Err"

\* C14: a network failure while requesting page n ends the call at once with
\* a Connection error naming that page's URL; page n was requested once and
\* no request follows.
C14_ConnectionFailureHalts ==
    \A i \in 1..Len(responses) :
        responses[i].kind = "connfail" =>
            /\ i = Len(responses)
            /\ Len(requests) = i
            /\ inflight = {}
            /\ pc = "done"
            /\ result.state = "Err"
            /\ result.err.kind = "Connection"
            /\ result.err.url = <<requests[i].url>>
            /\ Cardinality({k \in 1..Len(requests) :
                              requests[k].url.page = requests[i].url.page}) = 1

\* The request for page 2 fails after page 1 was fetched with projects.
C14_Witness ==
    /\ Len(responses) = 2
    /\ ValidPage(responses[1]) /\ responses[1].n > 0
    /\ responses[2].kind = "connfail"
    /\ requests[2].url.page = 2
    /\ pc = "done"

\* C15: every error the call returns names the URL of the page request that
\* failed, the last request issued.
C15_ErrorsNameUrl ==
    (pc = "done" /\ result.state = "Err") =>
        /\ result.err.kind \in {"Connection", "Unauthorized",
                                "UnexpectedStatus", "MalformedPage"}
        /\ result.err.url = <<requests[Len(requests)].url>>

\* The value of the PRIVATE-TOKEN header of a request, if it has one.
TokenOf(req) == {h.value : h \in {g \in req.headers : g.name = "PRIVATE-TOKEN"}}

\* The text parts of a URL.
UrlTexts(url) == {url.base} \cup {url.path[k] : k \in 1..Len(url.path)}

\* C16: every request carries the PRIVATE-TOKEN header with the configured
\* token when one is configured and no such header when none is; the token
\* is no part of the request URL.
C16_TokenHeader ==
    \A i \in 1..Len(requests) :
        /\ self.private_token # <<>> =>
              /\ TokenOf(requests[i]) = {self.private_token[1]}
              /\ Cardinality(requests[i].headers) = 1
              /\ self.private_token[1] \notin UrlTexts(requests[i].url)
        /\ self.private_token = <<>> => requests[i].headers = {}

\* Two pages were requested with a token configured.
C16_Witness ==
    /\ self.private_token # <<>>
    /\ Len(requests) = 2
    /\ requests[2].url.page = 2
    /\ TokenOf(requests[2]) # {}

\* C17: the requests of a call are for pages 1, 2, ..., k in this order,
\* each with per_page=100; at most one request is outstanding, and a request
\* is issued only after the response to the one before it was a valid page
\* whose projects have been appended.
C17_SequentialRequests ==
    /\ \A i \in 1..Len(requests) :
          /\ requests[i].url.page = i
          /\ requests[i].url.per_page = 100
    /\ Cardinality(inflight) <= 1
    /\ Len(requests) - Len(responses) = Cardinality(inflight)
    /\ \A i \in 1..(Len(requests) - 1) :
          /\ ValidPage(responses[i])
          /\ Len(projects) >= SumN(responses, i)

\* The request for page 2 is outstanding and the projects of page 1 are in
\* the accumulator.
C17_Witness ==
    /\ Len(requests) = 2
    /\ inflight = {requests[2]}
    /\ responses[1].n > 0
    /\ Len(projects) = responses[1].n

\* The raw header value holds a character that is no digit.
NonNumeric(raw) == \E k \in 1..Len(raw) : DigitValue(raw[k]) < 0

\* C18: a valid 200 response whose X-Next-Page header is present but not
\* numeric ends the pagination like a response without the header: its
\* projects are accepted, no request follows and the call returns success.
C18_MalformedHeaderEndsPaging ==
    \A i \in 1..Len(responses) :
        (/\ ValidPage(responses[i])
         /\ responses[i].next # <<>>
         /\ NonNumeric(responses[i].next[1])) =>
            /\ i = Len(responses)
            /\ Len(requests) = i
            /\ inflight = {}
            /\ pc \in {"mirrors", "done"}
            /\ Len(projects) = SumN(responses, i)
            /\ pc = "done" => result.state = "Ok"

\* Success after a first page with projects and the header value "x".
C18_Witness ==
    /\ pc = "done"
    /\ result.state = "Ok"
    /\ Len(responses) = 1
    /\ responses[1].next = << <<"x">> >>
    /\ responses[1].n > 0
    /\ Len(result.mirrors) > 0

\* The position in projects of the project the mirror m was made of.
SourceOf(m) == CHOOSE j \in 1..Len(projects) : MirrorOf(m, projects[j])

\* The project id a comes before the project id b in the pages served.
ServedBefore(a, b) == a[1] < b[1] \/ (a[1] = b[1] /\ a[2] < b[2])

\* C19: the fetched projects are kept in the order of the pages and of the
\* elements within a page, and the mirrors are in the order of the projects
\* they were made of, each project giving at most one mirror.
C19_OrderPreserved ==
    LET ms == IF pc = "done" THEN result.mirrors ELSE mirrors IN
    /\ \A j, k \in 1..Len(projects) :
          j < k => ServedBefore(projects[j].web_url[2], projects[k].web_url[2])
    /\ \A i \in 1..Len(ms) : \E j \in 1..Len(projects) : MirrorOf(ms[i], projects[j])
    /\ \A i, k \in 1..Len(ms) : i < k => SourceOf(ms[i]) < SourceOf(ms[k])

\* Success with two mirrors made of the first and the third project, which
\* come from different pages, the second project being dropped.
C19_Witness ==
    /\ pc = "done"
    /\ result.state = "Ok"
    /\ Len(responses) = 2
    /\ Len(projects) = 3
    /\ 2 \in Dropped(projects)
    /\ Len(result.mirrors) = 2
    /\ SourceOf(result.mirrors[1]) = 1
    /\ SourceOf(result.mirrors[2]) = 3

====
